---- MODULE Spec2Model ----
(***************************************************************************)
(* A model of s3_image_importer.py: the resumable import of the images a   *)
(* CSV file lists into an S3 bucket.  main() loads the progress file,      *)
(* filters the rows, submits one process_image_download_upload call per    *)
(* remaining row to a ThreadPoolExecutor and, in the main thread, appends  *)
(* the index of every call that returned to the progress file.             *)
(***************************************************************************)
EXTENDS Integers, Sequences, FiniteSets, Bags, TLC

(***************************************************************************)
(* Bounds of the model.                                                    *)
(***************************************************************************)
\* The longest CSV file considered (rows 0 .. MaxRows-1).
MaxRows == 4
\* The pool size (MAX_WORKERS = 30 in the source), scaled down so that the
\* pool is smaller than the number of tasks.
MAX_WORKERS == 2

(***************************************************************************)
(* Configuration.                                                          *)
(***************************************************************************)
DEST_S3_FOLDER == "your-folder-name"

(***************************************************************************)
(* The CSV cells of the URL column.  A URL is kept as urlparse sees it: a  *)
(* network location and a path, the path a sequence of tokens in which "/" *)
(* and "." are the separators.  An empty cell is read by pandas as NaN.    *)
(***************************************************************************)
NaN == [isna |-> TRUE, netloc |-> "", path |-> << >>]
UrlPng == [isna |-> FALSE, netloc |-> "h", path |-> <<"/", "a", ".", "png">>]
UrlMissing == [isna |-> FALSE, netloc |-> "h", path |-> <<"/", "missing">>]
UrlDir == [isna |-> FALSE, netloc |-> "h", path |-> <<"/", "dir", "/">>]
UrlTar == [isna |-> FALSE, netloc |-> "h", path |-> <<"/", "b", ".", "tar", ".", "gz">>]
UrlNumbered == [isna |-> FALSE, netloc |-> "h", path |-> <<"/", "1_a", ".", "png">>]

\* The rows the CSV files of the model are cut from: file n holds the first
\* n rows, and row i holds Catalogue[(i % 7) + 1].
Catalogue == <<UrlPng, UrlMissing, NaN, UrlDir, UrlMissing, UrlPng, UrlTar>>

CsvFile(n) == [k \in 1..n |-> Catalogue[((k - 1) % Len(Catalogue)) + 1]]

(***************************************************************************)
(* The remote servers: the responses a URL may give when the request       *)
(* succeeds (a 200): the body and the Content-Type header ("" when the     *)
(* header is absent).  A request may also fail; that is chosen per call.   *)
(* What a URL serves may change from one request to the next: UrlDir       *)
(* serves a JPEG without a Content-Type header, or a PNG declared as       *)
(* application/octet-stream.                                               *)
(***************************************************************************)
Remote(url) ==
  CASE url = UrlPng -> {[content |-> "PNGDATA", content_type |-> "image/png"]}
    [] url = UrlMissing -> {[content |-> "HTMLDATA", content_type |-> "text/html"],
                            [content |-> "RAWDATA", content_type |-> ""]}
    [] url = UrlDir -> {[content |-> "JPEGDATA", content_type |-> ""],
                        [content |-> "PNGDATA", content_type |-> "application/octet-stream"]}
    [] OTHER -> {[content |-> "JPEGDATA", content_type |-> "application/octet-stream"]}

NoResponse == [content |-> "", content_type |-> ""]

\* PILImage.open(BytesIO(image_data)).format: the format Pillow reads from
\* the bytes, "RAISES" when it cannot identify an image, "" when it opens
\* the image and reports no format.
PILFormat(image_data) ==
  CASE image_data = "PNGDATA" -> "PNG"
    [] image_data = "JPEGDATA" -> "JPEG"
    [] image_data = "RAWDATA" -> ""
    [] OTHER -> "RAISES"

\* str.lower() on the format names Pillow reports.
Lower(s) ==
  CASE s = "PNG" -> "png"
    [] s = "JPEG" -> "jpeg"
    [] OTHER -> s

(***************************************************************************)
(* The destination key (lines 76-84).                                      *)
(***************************************************************************)
\* The last position of token t in sequence s, 0 when it does not occur.
LastIndexOf(s, t) ==
  LET at == {k \in 1..Len(s) : s[k] = t}
  IN IF at = {} THEN 0 ELSE CHOOSE k \in at : \A j \in at : j <= k

\* os.path.basename: what follows the last "/".
basename(path) == SubSeq(path, LastIndexOf(path, "/") + 1, Len(path))

\* os.path.splitext(name)[0]: the name up to its last ".", the whole name
\* when it has no "." or only leading ones.
splitext_root(name) ==
  LET dot == LastIndexOf(name, ".")
  IN IF dot > 0 /\ \E k \in 1..(dot - 1) : name[k] # "."
       THEN SubSeq(name, 1, dot - 1)
       ELSE name

\* extension_map.get(image_format, image_format), extension_map = {'jpeg': 'jpg'}.
extension_map(image_format) ==
  IF image_format = "jpeg" THEN "jpg" ELSE image_format

\* base_filename, "image" when the URL's path names no file.
base_filename(url) ==
  LET root == splitext_root(basename(url.path))
  IN IF root = << >> THEN <<"image">> ELSE root

\* A variant of DestKey without the index of the row.
DestKey_NoIndex(original_index, url, ext) ==
  <<DEST_S3_FOLDER, "/">> \o base_filename(url) \o <<".", ext>>

\* dest_key = f"{DEST_S3_FOLDER}/{original_index}_{base_filename}.{extension}"
DestKey(original_index, url, ext) ==
  <<DEST_S3_FOLDER, "/", ToString(original_index), "_">>
    \o base_filename(url) \o <<".", ext>>

\* The key as the one string the f-strings of lines 83-84 make of its parts.
RECURSIVE KeyString(_)
KeyString(key) ==
  IF key = << >> THEN "" ELSE Head(key) \o KeyString(Tail(key))

\* ContentType=response.headers.get('Content-Type', f'image/{extension}')
ContentType(resp, ext) ==
  IF resp.content_type # "" THEN resp.content_type
  ELSE "image/" \o ext

(***************************************************************************)
(* The state.                                                              *)
(***************************************************************************)
VARIABLES
  csv,                \* the rows of the CSV file, row i at csv[i + 1]
  ledger,             \* the lines of PROGRESS_FILE
  store,              \* the bucket: key -> [Body, ContentType]
  error_log,          \* the lines this run appended to ERROR_LOG_FILE, a bag
                      \* of [url, error] (the file is never read; what
                      \* earlier runs wrote stays before these lines)
  main_pc,            \* where main() is
  processed_indices,  \* main's set, loaded from the progress file
  tasks_to_process,   \* main's filtered rows, in the order of the file
  next_submit,        \* the next element of tasks_to_process to submit
  work_queue,         \* the executor's queue of submitted calls
  pc,                 \* each row's call: where it is
  response,           \* each call's local: the response of requests.get
  extension,          \* each call's local: the extension, once classified
  dest_key,           \* each call's local: the key, once derived
  outcome,            \* history: what each call ended with, this run
  n_submit,           \* history, this run: executor.submit calls per row
  n_fetch,            \* history, this run: requests.get calls per row
  n_put,              \* history, this run: put_object calls per row
  n_append,           \* history, this run: ledger lines appended per row
  n_error,            \* history, this run: error log lines per row
  prev_failed,        \* history, while a run submits its calls: the rows
                      \* whose call raised in the run before
  crash_left          \* history, in a run started after the process was
                      \* killed: the rows whose call had returned and whose
                      \* index had not been appended when it was killed

vars == <<csv, ledger, store, error_log, main_pc, processed_indices,
          tasks_to_process, next_submit, work_queue, pc, response, extension,
          dest_key, outcome, n_submit, n_fetch, n_put, n_append, n_error,
          prev_failed, crash_left>>

\* The files and the bucket.
files == <<csv, ledger, store, error_log>>
\* main's own variables.
main_vars == <<main_pc, processed_indices, tasks_to_process, next_submit>>
\* The locals of the calls.
locals == <<response, extension, dest_key>>
\* The history variables of a run.
counts == <<n_submit, n_fetch, n_put, n_append, n_error>>

Ids == 0..(MaxRows - 1)
Rows == 0..(Len(csv) - 1)
Url(i) == csv[i + 1]

\* A call is running in a worker thread.
InWorker == {"Fetching", "Classifying", "KeyDeriving", "Uploading"}
\* The call's future is done and main has not taken it from as_completed.
FutureDone == {"Returned", "Raised"}
\* main has consumed the future.
Terminal == {"Recorded", "Failed"}
Stages == {"NotDispatched", "Dispatched"} \cup InWorker \cup FutureDone \cup Terminal

NoOutcome == [tag |-> "None", error |-> ""]
Success == [tag |-> "Success", error |-> ""]
Failure(error) == [tag |-> "Failure", error |-> error]

Range(s) == {s[k] : k \in 1..Len(s)}
Zero == [i \in Ids |-> 0]

\* The bucket after put_object(Key, Body, ContentType).
PutObject(bucket, key, object) ==
  [k \in DOMAIN bucket \cup {key} |-> IF k = key THEN object ELSE bucket[k]]

(***************************************************************************)
(* The initial states: a CSV file, no progress file yet, an empty bucket,  *)
(* and the script not started.  The script may then be run any number of   *)
(* times, each run on the ledger and the bucket the runs before it left.   *)
(***************************************************************************)
Init ==
  /\ \E n \in 0..MaxRows : csv = CsvFile(n)
  /\ ledger = << >>
  /\ store = << >>
  /\ error_log = EmptyBag
  /\ main_pc = "idle"
  /\ processed_indices = {}
  /\ tasks_to_process = << >>
  /\ next_submit = 1
  /\ work_queue = << >>
  /\ pc = [i \in Ids |-> "NotDispatched"]
  /\ response = [i \in Ids |-> NoResponse]
  /\ extension = [i \in Ids |-> ""]
  /\ dest_key = [i \in Ids |-> << >>]
  /\ outcome = [i \in Ids |-> NoOutcome]
  /\ n_submit = Zero
  /\ n_fetch = Zero
  /\ n_put = Zero
  /\ n_append = Zero
  /\ n_error = Zero
  /\ prev_failed = {}
  /\ crash_left = {}

(***************************************************************************)
(* main(): the start of a run (lines 110-148).                             *)
(***************************************************************************)
\* load_processed_indices: the set of the integers the file's lines hold
\* (the empty set when there is no file).
load_processed_indices == Range(ledger)

\* A variant of TasksToProcess that forgets the ledger: every row with a
\* URL is a task again.
TasksToProcess_IgnoresLedger(df, processed) ==
  SelectSeq([k \in 1..Len(df) |-> k - 1], LAMBDA i : ~df[i + 1].isna)

\* A variant of TasksToProcess without the notna() filter of line 141.
TasksToProcess_KeepsNaN(df, processed) ==
  SelectSeq([k \in 1..Len(df) |-> k - 1], LAMBDA i : i \notin processed)

\* tasks_to_process: the rows whose index is not in processed and whose URL
\* cell is not NaN, in the order of the file.
TasksToProcess(df, processed) ==
  SelectSeq([k \in 1..Len(df) |-> k - 1],
            LAMBDA i : i \notin processed /\ ~df[i + 1].isna)

\* What a run starts from: the process is new, no call is submitted, the
\* history starts again.
ResetCalls ==
  /\ next_submit' = 1
  /\ work_queue' = << >>
  /\ pc' = [i \in Ids |-> "NotDispatched"]
  /\ response' = [i \in Ids |-> NoResponse]
  /\ extension' = [i \in Ids |-> ""]
  /\ dest_key' = [i \in Ids |-> << >>]
  /\ error_log' = EmptyBag
  /\ outcome' = [i \in Ids |-> NoOutcome]
  /\ n_submit' = Zero
  /\ n_fetch' = Zero
  /\ n_put' = Zero
  /\ n_append' = Zero
  /\ n_error' = Zero
  /\ prev_failed' = IF main_pc' = "submitting"
                      THEN {i \in Ids : outcome[i].tag = "Failure"}
                      ELSE {}
  /\ crash_left' = IF main_pc = "crashed" THEN crash_left ELSE {}

Stopped == main_pc \in {"idle", "finished", "aborted", "crashed"}

\* A variant of StartupFails in which the executor is created and the first
\* row submitted before the error is met.
StartupFails_AfterSubmit ==
  /\ Stopped
  /\ main_pc' = "aborted"
  /\ processed_indices' = {}
  /\ tasks_to_process' = << >>
  /\ LET rows == TasksToProcess(csv, {})
     IN /\ work_queue' = IF rows = << >> THEN << >> ELSE <<rows[1]>>
        /\ pc' = [i \in Ids |-> IF rows # << >> /\ i = rows[1]
                                  THEN "Dispatched" ELSE "NotDispatched"]
  /\ next_submit' = 1
  /\ response' = [i \in Ids |-> NoResponse]
  /\ extension' = [i \in Ids |-> ""]
  /\ dest_key' = [i \in Ids |-> << >>]
  /\ error_log' = EmptyBag
  /\ outcome' = [i \in Ids |-> NoOutcome]
  /\ n_submit' = Zero
  /\ n_fetch' = Zero
  /\ n_put' = Zero
  /\ n_append' = Zero
  /\ n_error' = Zero
  /\ prev_failed' = {}
  /\ crash_left' = {}
  /\ UNCHANGED <<csv, ledger, store>>

\* boto3.client raises NoCredentialsError, the CSV file is missing or it has
\* no URL column: main logs the error and returns.
StartupFails ==
  /\ Stopped
  /\ main_pc' = "aborted"
  /\ processed_indices' = {}
  /\ tasks_to_process' = << >>
  /\ ResetCalls
  /\ UNCHANGED <<csv, ledger, store>>

\* The script starts, loads the ledger and filters the rows; with no row
\* left it returns at once.
StartRun ==
  /\ Stopped
  /\ processed_indices' = load_processed_indices
  /\ tasks_to_process' = TasksToProcess(csv, processed_indices')
  /\ main_pc' = IF tasks_to_process' = << >> THEN "finished" ELSE "submitting"
  /\ ResetCalls
  /\ UNCHANGED <<csv, ledger, store>>

\* executor.submit, one call per row of tasks_to_process, in its order
\* (lines 151-154).
Submit ==
  /\ main_pc = "submitting"
  /\ LET i == tasks_to_process[next_submit]
     IN /\ pc' = [pc EXCEPT ![i] = "Dispatched"]
        /\ work_queue' = Append(work_queue, i)
        /\ n_submit' = [n_submit EXCEPT ![i] = @ + 1]
  /\ next_submit' = next_submit + 1
  /\ main_pc' = IF next_submit' > Len(tasks_to_process)
                  THEN "consuming" ELSE "submitting"
  /\ prev_failed' = IF main_pc' = "submitting" THEN prev_failed ELSE {}
  /\ UNCHANGED <<files, processed_indices, tasks_to_process, locals, outcome,
                 n_fetch, n_put, n_append, n_error, crash_left>>

(***************************************************************************)
(* The worker threads: process_image_download_upload (lines 56-108).       *)
(***************************************************************************)
Running == {i \in Ids : pc[i] \in InWorker}

\* A variant of WorkerFree in which a call that raised keeps its thread.
WorkerFree_LostThreads ==
  Cardinality(Running \cup {i \in Ids : outcome[i].tag = "Failure"}) < MAX_WORKERS

\* A variant of WorkerFree for an executor that starts a thread per call.
WorkerFree_ThreadPerCall == TRUE

\* The pool has MAX_WORKERS threads: one is free to take a call.
WorkerFree == Cardinality(Running) < MAX_WORKERS

\* A worker thread takes the oldest submitted call.
StartCall(i) ==
  /\ work_queue # << >>
  /\ i = Head(work_queue)
  /\ WorkerFree
  /\ work_queue' = Tail(work_queue)
  /\ pc' = [pc EXCEPT ![i] = "Fetching"]
  /\ UNCHANGED <<files, main_vars, locals, outcome, counts, prev_failed, crash_left>>

\* A variant of Raise that writes no line to the error log.
Raise_NoLog(i, error) ==
  /\ UNCHANGED <<error_log, n_error>>
  /\ outcome' = [outcome EXCEPT ![i] = Failure(error)]
  /\ pc' = [pc EXCEPT ![i] = "Raised"]

\* A variant of Raise that writes its line only when no other call has
\* written one in the run.
Raise_OnlyFirst(i, error) ==
  /\ error_log' = IF error_log = EmptyBag
                   THEN SetToBag({[url |-> Url(i), error |-> error]})
                   ELSE error_log
  /\ n_error' = [n_error EXCEPT ![i] = @ + 1]
  /\ outcome' = [outcome EXCEPT ![i] = Failure(error)]
  /\ pc' = [pc EXCEPT ![i] = "Raised"]

\* An except clause of lines 94-108: one line in the error log, with the
\* URL, and the exception is raised again: the future holds it.
Raise(i, error) ==
  /\ error_log' = error_log (+) SetToBag({[url |-> Url(i), error |-> error]})
  /\ n_error' = [n_error EXCEPT ![i] = @ + 1]
  /\ outcome' = [outcome EXCEPT ![i] = Failure(error)]
  /\ pc' = [pc EXCEPT ![i] = "Raised"]

\* requests.get returns a 200 with one of the URL's responses.
FetchOk(i) ==
  /\ pc[i] = "Fetching"
  /\ n_fetch' = [n_fetch EXCEPT ![i] = @ + 1]
  /\ \E r \in Remote(Url(i)) : response' = [response EXCEPT ![i] = r]
  /\ pc' = [pc EXCEPT ![i] = "Classifying"]
  /\ UNCHANGED <<files, main_vars, work_queue, extension, dest_key, outcome,
                 n_submit, n_put, n_append, n_error, prev_failed, crash_left>>

\* A variant of FetchFails that logs the error and goes on to classify what
\* it has.
FetchFails_ThenClassifies(i) ==
  /\ pc[i] = "Fetching"
  /\ n_fetch' = [n_fetch EXCEPT ![i] = @ + 1]
  /\ error_log' = error_log (+) SetToBag({[url |-> Url(i),
                                           error |-> "RequestException"]})
  /\ n_error' = [n_error EXCEPT ![i] = @ + 1]
  /\ pc' = [pc EXCEPT ![i] = "Classifying"]
  /\ UNCHANGED <<csv, ledger, store, main_vars, work_queue, locals, outcome,
                 n_submit, n_put, n_append, prev_failed, crash_left>>

\* requests.get times out or fails to connect, or raise_for_status meets a
\* 4xx or 5xx.
FetchFails(i) ==
  /\ pc[i] = "Fetching"
  /\ n_fetch' = [n_fetch EXCEPT ![i] = @ + 1]
  /\ Raise(i, "RequestException")
  /\ UNCHANGED <<csv, ledger, store, main_vars, work_queue, locals,
                 n_submit, n_put, n_append, prev_failed, crash_left>>

\* A variant of IsImage without the check of line 70 (if not image.format).
IsImage_AnyFormat(image_data) == PILFormat(image_data) # "RAISES"

\* Lines 68-74: Pillow identifies the bytes as an image that has a format.
IsImage(image_data) == PILFormat(image_data) \notin {"RAISES", ""}

\* Lines 68-77: no image or no format is a ValueError, else the extension
\* is the format's.
Classify(i) ==
  /\ pc[i] = "Classifying"
  /\ IF IsImage(response[i].content)
       THEN /\ extension' = [extension EXCEPT ![i] =
                               extension_map(Lower(PILFormat(response[i].content)))]
            /\ pc' = [pc EXCEPT ![i] = "KeyDeriving"]
            /\ UNCHANGED <<error_log, n_error, outcome>>
       ELSE /\ Raise(i, "ValueError")
            /\ UNCHANGED extension
  /\ UNCHANGED <<csv, ledger, store, main_vars, work_queue, response,
                 dest_key, n_submit, n_fetch, n_put, n_append, prev_failed, crash_left>>

\* A variant of DeriveKey that numbers the file name with the length of the
\* ledger.
DeriveKey_LedgerLength(i) ==
  /\ pc[i] = "KeyDeriving"
  /\ dest_key' = [dest_key EXCEPT ![i] =
                    <<DEST_S3_FOLDER, "/", ToString(i), "_">>
                      \o base_filename(Url(i))
                      \o <<"-", ToString(Len(ledger)), ".", extension[i]>>]
  /\ pc' = [pc EXCEPT ![i] = "Uploading"]
  /\ UNCHANGED <<files, main_vars, work_queue, response, extension, outcome,
                 counts, prev_failed, crash_left>>

\* Lines 79-84.
DeriveKey(i) ==
  /\ pc[i] = "KeyDeriving"
  /\ dest_key' = [dest_key EXCEPT ![i] = DestKey(i, Url(i), extension[i])]
  /\ pc' = [pc EXCEPT ![i] = "Uploading"]
  /\ UNCHANGED <<files, main_vars, work_queue, response, extension, outcome,
                 counts, prev_failed, crash_left>>

\* A variant of PutOk in which the worker appends the index itself.
PutOk_AppendsInWorker(i) ==
  /\ pc[i] = "Uploading"
  /\ n_put' = [n_put EXCEPT ![i] = @ + 1]
  /\ store' = PutObject(store, dest_key[i],
                [Body |-> response[i].content,
                 ContentType |-> ContentType(response[i], extension[i])])
  /\ ledger' = Append(ledger, i)
  /\ n_append' = [n_append EXCEPT ![i] = @ + 1]
  /\ outcome' = [outcome EXCEPT ![i] = Success]
  /\ pc' = [pc EXCEPT ![i] = "Returned"]
  /\ UNCHANGED <<csv, error_log, main_vars, work_queue, locals,
                 n_submit, n_fetch, n_error, prev_failed, crash_left>>

\* s3_client.put_object succeeds and the call returns original_index.
PutOk(i) ==
  /\ pc[i] = "Uploading"
  /\ n_put' = [n_put EXCEPT ![i] = @ + 1]
  /\ store' = PutObject(store, dest_key[i],
                [Body |-> response[i].content,
                 ContentType |-> ContentType(response[i], extension[i])])
  /\ outcome' = [outcome EXCEPT ![i] = Success]
  /\ pc' = [pc EXCEPT ![i] = "Returned"]
  /\ UNCHANGED <<csv, ledger, error_log, main_vars, work_queue, locals,
                 n_submit, n_fetch, n_append, n_error, prev_failed, crash_left>>

\* s3_client.put_object raises: a ClientError, or another exception
\* (no credentials, no connection).
PutFails(i) ==
  /\ pc[i] = "Uploading"
  /\ n_put' = [n_put EXCEPT ![i] = @ + 1]
  /\ \E error \in {"ClientError", "Exception"} : Raise(i, error)
  /\ UNCHANGED <<csv, ledger, store, main_vars, work_queue, locals,
                 n_submit, n_fetch, n_append, prev_failed, crash_left>>

\* One step of the call for row i.
process_image_download_upload(i) ==
  \/ FetchOk(i)
  \/ FetchFails(i)
  \/ Classify(i)
  \/ DeriveKey(i)
  \/ PutOk(i)
  \/ PutFails(i)

\* One step of a worker thread of the executor.
Worker(i) == StartCall(i) \/ process_image_download_upload(i)

(***************************************************************************)
(* main(): the loop over as_completed (lines 156-166).                     *)
(***************************************************************************)
\* A variant of log_processed_index that opens the file with 'w'.
log_processed_index_Rewrites(index) ==
  /\ ledger' = <<index>>
  /\ n_append' = [n_append EXCEPT ![index] = @ + 1]

\* A variant of log_processed_index whose line is written into the last
\* line of the file, as the writes of two unserialized writers may be.
log_processed_index_Interleaved(index) ==
  /\ ledger' = IF ledger = << >> THEN <<index>>
                ELSE [ledger EXCEPT ![Len(ledger)] = index]
  /\ n_append' = [n_append EXCEPT ![index] = @ + 1]

\* log_processed_index(index): one line appended to the progress file.
log_processed_index(index) ==
  /\ ledger' = Append(ledger, index)
  /\ n_append' = [n_append EXCEPT ![index] = @ + 1]

\* future.result() returns the index and log_processed_index appends it.
ConsumeReturned(i) ==
  /\ main_pc = "consuming"
  /\ pc[i] = "Returned"
  /\ log_processed_index(i)
  /\ pc' = [pc EXCEPT ![i] = "Recorded"]
  /\ UNCHANGED <<csv, store, error_log, main_vars, work_queue, locals,
                 outcome, n_submit, n_fetch, n_put, n_error, prev_failed, crash_left>>

\* A variant of WarnFailed that records the row all the same.
WarnFailed_Records(i) ==
  /\ pc' = [pc EXCEPT ![i] = "Failed"]
  /\ log_processed_index(i)

\* The except clause of line 163: a warning on the console, nothing else.
WarnFailed(i) ==
  /\ pc' = [pc EXCEPT ![i] = "Failed"]
  /\ UNCHANGED <<ledger, n_append>>

\* A variant of ConsumeReturnedAppendFails in which the exception of
\* log_processed_index leaves the loop and ends the run.
ConsumeReturnedAppendFails_EndsRun(i) ==
  /\ main_pc = "consuming"
  /\ pc[i] = "Returned"
  /\ WarnFailed(i)
  /\ main_pc' = "finished"
  /\ UNCHANGED <<csv, store, error_log, processed_indices, tasks_to_process,
                 next_submit, work_queue, locals, outcome, n_submit, n_fetch,
                 n_put, n_error, prev_failed, crash_left>>

\* future.result() returns the index and log_processed_index raises (the
\* file cannot be opened or written): the except clause of line 163.
ConsumeReturnedAppendFails(i) ==
  /\ main_pc = "consuming"
  /\ pc[i] = "Returned"
  /\ WarnFailed(i)
  /\ UNCHANGED <<csv, store, error_log, main_vars, work_queue, locals,
                 outcome, n_submit, n_fetch, n_put, n_error, prev_failed, crash_left>>

\* future.result() raises the call's exception: the except clause of line 163.
ConsumeRaised(i) ==
  /\ main_pc = "consuming"
  /\ pc[i] = "Raised"
  /\ WarnFailed(i)
  /\ UNCHANGED <<csv, store, error_log, main_vars, work_queue, locals,
                 outcome, n_submit, n_fetch, n_put, n_error, prev_failed, crash_left>>

\* A variant of AllConsumed that leaves the loop at the first failure.
AllConsumed_OrOneFailed ==
  \/ \E i \in Range(tasks_to_process) : pc[i] = "Failed"
  \/ \A i \in Range(tasks_to_process) : pc[i] \in Terminal

\* as_completed has yielded every future: the loop and the with block end.
AllConsumed == \A i \in Range(tasks_to_process) : pc[i] \in Terminal

\* main logs "Script finished." and returns.
Finish ==
  /\ main_pc = "consuming"
  /\ AllConsumed
  /\ main_pc' = "finished"
  /\ UNCHANGED <<files, processed_indices, tasks_to_process, next_submit,
                 work_queue, pc, locals, outcome, counts, prev_failed, crash_left>>

main ==
  \/ StartupFails
  \/ StartRun
  \/ Submit
  \/ \E i \in Ids : ConsumeReturned(i)
  \/ \E i \in Ids : ConsumeReturnedAppendFails(i)
  \/ \E i \in Ids : ConsumeRaised(i)
  \/ Finish

Next == main \/ \E i \in Ids : Worker(i)

Spec == Init /\ [][Next]_vars

(***************************************************************************)
(* The process is stopped in the middle of a run (killed, or the machine   *)
(* stops): main and the worker threads are gone with all they held, the    *)
(* files and the bucket stay as they are.  put_object and the write of one *)
(* line are taken as atomic: each has happened or has not.                 *)
(***************************************************************************)
Crash ==
  /\ main_pc \in {"submitting", "consuming"}
  /\ main_pc' = "crashed"
  /\ crash_left' = {i \in Ids : pc[i] = "Returned"}
  /\ processed_indices' = {}
  /\ tasks_to_process' = << >>
  /\ next_submit' = 1
  /\ work_queue' = << >>
  /\ pc' = [i \in Ids |-> "NotDispatched"]
  /\ response' = [i \in Ids |-> NoResponse]
  /\ extension' = [i \in Ids |-> ""]
  /\ dest_key' = [i \in Ids |-> << >>]
  /\ outcome' = [i \in Ids |-> NoOutcome]
  /\ n_submit' = Zero
  /\ n_fetch' = Zero
  /\ n_put' = Zero
  /\ n_append' = Zero
  /\ n_error' = Zero
  /\ prev_failed' = {}
  /\ UNCHANGED files

\* The script, and the stops it may suffer.
CrashNext == Next \/ Crash

CrashSpec == Init /\ [][CrashNext]_vars

\* The threads are scheduled and every call a thread makes returns
\* (requests.get has a timeout): while the script is running and one of its
\* threads can take a step, a step is taken.  Nothing forces the script to
\* be started again.
MainLoop ==
  \/ Submit
  \/ \E i \in Ids : ConsumeReturned(i) \/ ConsumeReturnedAppendFails(i)
  \/ \E i \in Ids : ConsumeRaised(i)
  \/ Finish

RunStep == MainLoop \/ \E i \in Ids : Worker(i)

FairSpec == Spec /\ WF_vars(RunStep)

TypeOK ==
  /\ pc \in [Ids -> Stages]
  /\ main_pc \in {"idle", "submitting", "consuming", "finished", "aborted",
                 "crashed"}
  /\ Range(ledger) \subseteq Ids
  /\ Running \subseteq Range(tasks_to_process)

(***************************************************************************)
(* What the properties speak of.                                           *)
(***************************************************************************)
RECURSIVE SumOver(_, _)
SumOver(f, S) ==
  IF S = {} THEN 0
  ELSE LET x == CHOOSE y \in S : TRUE IN f[x] + SumOver(f, S \ {x})

\* The ledger as it was when the current run started: its lines but those
\* the run appended.
StartLedger ==
  Range(SubSeq(ledger, 1, Len(ledger) - SumOver(n_append, Ids)))

\* The rows a run has to process: not in the ledger at its start, and with
\* a URL.
EligibleAtStart == {i \in Rows : i \notin StartLedger /\ ~Url(i).isna}

\* The bucket holds an object of row i (its key starts with the folder and
\* the row's index).
Uploaded(i) == \E k \in DOMAIN store : k[3] = ToString(i)

\* The run has submitted every call.
Dispatching == main_pc \in {"submitting", "consuming"}

(***************************************************************************)
(* C1. In every reachable state an identifier is in the Ledger if and only *)
(* if the put of its object has completed successfully.  (The statement as *)
(* claimed; it fails between the put and the append.)                      *)
(***************************************************************************)
C1_LedgerIffUploaded ==
  \A i \in Rows : (i \in Range(ledger)) <=> Uploaded(i)

\* C1, amended: in every reachable state an identifier is in the Ledger only
\* if the put of its object has completed successfully, and the object it
\* put is in the bucket.
C1_LedgerOnlyIfUploaded ==
  \A i \in Range(ledger) : i \in Rows /\ Uploaded(i)

\* A run has appended a row to the ledger.
C1_Witness ==
  \E i \in Rows : n_append[i] = 1 /\ pc[i] = "Recorded" /\ i \in Range(ledger)

(***************************************************************************)
(* C2. In a run with N eligible tasks (rows not in the Ledger at the start *)
(* and with a URL) exactly N pipeline executions occur: every eligible row *)
(* is submitted exactly once and no other row is, and no row is fetched or *)
(* put more than once in the run.                                          *)
(***************************************************************************)
C2_ExactlyOnce ==
  /\ \A i \in Ids : n_submit[i] <= 1 /\ n_fetch[i] <= n_submit[i]
                                      /\ n_put[i] <= n_fetch[i]
  /\ \A i \in Ids : n_submit[i] = 1 => i \in EligibleAtStart
  /\ main_pc \in {"consuming", "finished"} =>
       \A i \in EligibleAtStart : n_submit[i] = 1
  /\ main_pc = "finished" =>
       /\ \A i \in EligibleAtStart : n_fetch[i] = 1
       /\ SumOver(n_fetch, Ids) = Cardinality(EligibleAtStart)

\* A finished run that had two tasks, a row in the ledger at its start and a
\* row without a URL.
C2_Witness ==
  /\ main_pc = "finished"
  /\ Cardinality(EligibleAtStart) >= 2
  /\ StartLedger # {}
  /\ \E i \in Rows : Url(i).isna
  /\ \A i \in EligibleAtStart : n_fetch[i] = 1

(***************************************************************************)
(* C3. Every dispatched task produces exactly one outcome, consumed        *)
(* exactly once: a Success causes exactly one Ledger append and no error   *)
(* log line, a Failure exactly one error log line and no Ledger append; no *)
(* task ends the run with both or with neither.  (Fails when the append    *)
(* raises: the task ends with neither.)                                    *)
(***************************************************************************)
C3_OneOutcomeConsumedOnce ==
  /\ \A i \in Ids : n_append[i] + n_error[i] <= 1
  /\ main_pc = "finished" =>
       \A i \in Ids : n_submit[i] = 1 =>
         \/ outcome[i].tag = "Success" /\ n_append[i] = 1 /\ n_error[i] = 0
         \/ outcome[i].tag = "Failure" /\ n_append[i] = 0 /\ n_error[i] = 1

(***************************************************************************)
(* C4. When a task fails at a stage (fetch, classify, upload) its          *)
(* identifier is not added to the Ledger in that run, one line with the    *)
(* task's URL is written to the error log, and the identifier is in the    *)
(* dispatch set (tasks_to_process) of the next run.                        *)
(***************************************************************************)
C4_FailureLeftForNextRun ==
  /\ [](\A i \in Ids : outcome[i].tag = "Failure" =>
          /\ n_append[i] = 0
          /\ i \notin Range(ledger)
          /\ n_error[i] = 1
          /\ \E line \in BagToSet(error_log) : line.url = Url(i))
  /\ [](main_pc = "submitting" => prev_failed \subseteq Range(tasks_to_process))
  /\ [][main_pc = "finished" =>
          \A i \in Ids : outcome[i].tag = "Failure" =>
            main_pc' = "aborted" \/ i \in Range(tasks_to_process')]_vars

\* A row whose call raised in the run before is in a worker again.
C4_Witness ==
  \E i \in prev_failed : pc[i] \in InWorker /\ n_submit[i] = 1

(***************************************************************************)
(* C5. Fail-isolation: whatever tasks fail in a run, every sibling whose   *)
(* fetch, classification and upload all succeed is recorded in the Ledger  *)
(* in that run.  Stated of the finished run.  (Fails when the append       *)
(* raises.)                                                                *)
(***************************************************************************)
C5_SuccessfulSiblingsRecorded ==
  main_pc = "finished" =>
    \A i \in Ids : outcome[i].tag = "Success" =>
      pc[i] = "Recorded" /\ i \in Range(ledger)

(***************************************************************************)
(* C6. Content-type gate: a task whose fetch succeeded and whose payload   *)
(* is no decodable image, or has no format, never issues a put; it ends    *)
(* with a Failure and its identifier is not in the Ledger.                 *)
(***************************************************************************)
C6_ContentTypeGate ==
  \A i \in Ids :
    (n_fetch[i] = 1 /\ response[i] # NoResponse
       /\ PILFormat(response[i].content) \in {"RAISES", ""}) =>
      /\ n_put[i] = 0
      /\ ~Uploaded(i)
      /\ pc[i] \in {"Classifying", "Raised", "Failed"}
      /\ pc[i] # "Classifying" => outcome[i] = Failure("ValueError")
      /\ n_append[i] = 0
      /\ i \notin Range(ledger)

\* A call got an HTML page with a 200, and main has consumed its failure.
C6_Witness ==
  \E i \in Ids : /\ response[i].content = "HTMLDATA"
                 /\ n_fetch[i] = 1
                 /\ pc[i] = "Failed"
                 /\ outcome[i] = Failure("ValueError")

(***************************************************************************)
(* C7. Resume idempotence: over any number of runs the Ledger only grows   *)
(* by appended lines (no line is removed or rewritten, so it stays a       *)
(* superset of the starting Ledger), and the identifiers a run appends are *)
(* not in the Ledger as it was when that run started.                      *)
(***************************************************************************)
IsPrefix(s, t) == Len(s) <= Len(t) /\ SubSeq(t, 1, Len(s)) = s

C7_ResumeIdempotence ==
  /\ [][IsPrefix(ledger, ledger')]_vars
  /\ [](\A i \in Ids : n_append[i] >= 1 => i \notin StartLedger)

\* A later run, started on a ledger that an earlier run had written, has
\* appended a row.
C7_Witness ==
  /\ main_pc = "finished"
  /\ StartLedger # {}
  /\ \E i \in Ids : n_append[i] = 1 /\ i \in Range(ledger)

(***************************************************************************)
(* C8. The run is finished only when every dispatched task has reached a   *)
(* terminal state (Recorded or Failed), each after its fetch was made; and *)
(* the step in which a task fails changes no other task and leaves the     *)
(* queue as it is.                                                         *)
(***************************************************************************)
C8_PoolDrains ==
  /\ [](main_pc = "finished" =>
          /\ work_queue = << >>
          /\ \A i \in Ids : n_submit[i] = 1 => pc[i] \in Terminal /\ n_fetch[i] = 1)
  /\ [][\A i \in Ids :
          (pc[i] \notin {"Raised", "Failed"} /\ pc'[i] \in {"Raised", "Failed"}) =>
            /\ work_queue' = work_queue
            /\ \A j \in Ids \ {i} : pc'[j] = pc[j]]_vars

\* A finished run in which a row failed and a row submitted after it was
\* recorded.
C8_Witness ==
  /\ main_pc = "finished"
  /\ \E i, j \in Ids : /\ i < j
                       /\ outcome[i].tag = "Failure"
                       /\ pc[j] = "Recorded"

(***************************************************************************)
(* C9. Under fair scheduling, every fetch and put returning, a run that    *)
(* has started to dispatch reaches the finished state, however many of its *)
(* tasks fail.                                                             *)
(***************************************************************************)
C9_RunTerminates == Dispatching ~> (main_pc = "finished")

\* A finished run of at least two tasks, all of which failed.
C9_Witness ==
  /\ main_pc = "finished"
  /\ Cardinality({i \in Ids : n_submit[i] = 1}) >= 2
  /\ \A i \in Ids : n_submit[i] = 1 => outcome[i].tag = "Failure"

(***************************************************************************)
(* C10. For every task that succeeds, the Ledger holds its identifier by   *)
(* the time the worker is done with the task.  (The statement as claimed;  *)
(* it fails: the worker returns, and main appends later.)                  *)
(***************************************************************************)
C10_AppendedWhenWorkerDone ==
  \A i \in Ids :
    (outcome[i].tag = "Success" /\ pc[i] \notin InWorker) => i \in Range(ledger)

\* C10, amended: the Ledger append of a task is made by the main thread, and
\* only after the worker has returned the task's result and is released; no
\* append is made for a task that is queued or in a worker.
C10_AppendAfterWorkerDone ==
  /\ [][\A i \in Ids : n_append'[i] > n_append[i] =>
          /\ main_pc = "consuming"
          /\ pc[i] = "Returned"
          /\ outcome[i].tag = "Success"]_vars
  /\ [](\A i \in Ids : pc[i] \in InWorker \cup {"Dispatched", "Returned"} =>
          n_append[i] = 0)

\* A row is recorded while every thread of the pool runs another call.
C10_Witness ==
  \E i \in Ids : /\ pc[i] = "Recorded"
                 /\ n_append[i] = 1
                 /\ Cardinality(Running) = MAX_WORKERS

(***************************************************************************)
(* C11. Crash-safe resume.  The process may be stopped at any point of a   *)
(* run and started again.  Stated in four parts.                           *)
(***************************************************************************)
\* The objects of row i in the bucket.
KeysOf(i) == {k \in DOMAIN store : k[3] = ToString(i)}

\* Every identifier in the Ledger has its object in the bucket, also when
\* the process was stopped.
LedgerBacked == [](\A i \in Range(ledger) : i \in Rows /\ Uploaded(i))

\* A start of the script dispatches every row with a URL that is not in the
\* Ledger, whatever the process before it held when it stopped: the rows it
\* takes are those of the CSV file and the Ledger, and all are submitted.
RestartFromLedger ==
  /\ [][(Stopped /\ main_pc' \in {"submitting", "finished"}) =>
          Range(tasks_to_process') =
            {i \in Rows : i \notin Range(ledger) /\ ~Url(i).isna}]_vars
  /\ [](main_pc \in {"consuming", "finished"} =>
          \A i \in Range(tasks_to_process) : n_submit[i] = 1)
  /\ [](main_pc = "crashed" =>
          /\ work_queue = << >>
          /\ processed_indices = {}
          /\ \A i \in Ids : pc[i] = "NotDispatched")

\* A row that has an object in the bucket and is put again is put to the
\* key of that object: the put adds no key.
ReuploadSameKey ==
  [][\A i \in Ids :
       (pc[i] = "Uploading" /\ pc'[i] = "Returned" /\ Uploaded(i)) =>
         DOMAIN store' = DOMAIN store]_vars

\* A row that has an object in the bucket and is put again with the format
\* of that object is put to its key; with another format the put adds one
\* key and leaves the earlier object where it is.
ReuploadSameKeyIfSameFormat ==
  [][\A i \in Ids :
       (pc[i] = "Uploading" /\ pc'[i] = "Returned" /\ Uploaded(i)) =>
         /\ (\E k \in KeysOf(i) : k[Len(k)] = extension[i]) =>
               (dest_key[i] \in DOMAIN store /\ DOMAIN store' = DOMAIN store)
         /\ DOMAIN store' = DOMAIN store \cup {dest_key[i]}
         /\ \A k \in DOMAIN store \ {dest_key[i]} : store'[k] = store[k]]_vars

\* C11 as claimed: every identifier in the Ledger has its object in the
\* bucket, a restart after a stop at any point dispatches every eligible
\* identifier that is not in the Ledger and needs nothing but the Ledger, and
\* an upload that completed without its Ledger append is put again to the
\* same key.  (Fails when the URL serves another image format at the
\* restart: the extension is part of the key.)
C11_CrashSafeResume ==
  LedgerBacked /\ RestartFromLedger /\ ReuploadSameKey

\* C11, amended: as claimed, but the upload that completed without its
\* Ledger append is put again to the same key when the payload has the
\* format it had, and to a key with the new extension when it has not.
C11_CrashSafeResumeSameFormat ==
  LedgerBacked /\ RestartFromLedger /\ ReuploadSameKeyIfSameFormat

\* The process was killed when a call had returned and its index was not
\* appended, while the ledger held another row; in the run started after,
\* the call has put the object again, to the one key the row has.
C11_Witness ==
  \E i \in crash_left :
    /\ pc[i] = "Returned"
    /\ n_put[i] = 1
    /\ i \notin Range(ledger)
    /\ KeysOf(i) = {dest_key[i]}
    /\ Range(ledger) # {}

(***************************************************************************)
(* C12. A configuration failure at startup (no credentials when the client *)
(* is made, no CSV file, no URL column) ends the run before any task is    *)
(* dispatched: in that run no call is submitted, nothing is fetched or     *)
(* put, and the Ledger and the bucket are left as they were.               *)
(***************************************************************************)
C12_StartupFailureDispatchesNothing ==
  /\ [](main_pc = "aborted" =>
          /\ work_queue = << >>
          /\ \A i \in Ids : /\ pc[i] = "NotDispatched"
                            /\ n_submit[i] = 0
                            /\ n_fetch[i] = 0
                            /\ n_put[i] = 0
                            /\ n_append[i] = 0)
  /\ [][main_pc' = "aborted" => (ledger' = ledger /\ store' = store)]_vars

\* The script failed at startup when rows with a URL were left to do and an
\* earlier run had recorded a row.
C12_Witness ==
  /\ main_pc = "aborted"
  /\ Range(ledger) # {}
  /\ \E i \in Rows : i \notin Range(ledger) /\ ~Url(i).isna

(***************************************************************************)
(* C13. The destination key is a function of (identifier, URL, extension)  *)
(* that is injective in the identifier: as strings, the keys of two        *)
(* different identifiers differ, whatever the URLs and the extensions (a   *)
(* fact of the functions, evaluated before the script is first run); in    *)
(* a run no two tasks have the same key and a put changes the object of    *)
(* the task's key only; and over repeated runs (after a failed append or a *)
(* stop of the process) a row whose URL serves one image format has at     *)
(* most one object in the bucket.                                          *)
(***************************************************************************)
\* The URLs and the extensions the keys are compared on.
KeyUrls == {u \in Range(Catalogue) : ~u.isna} \cup {UrlNumbered}
KeyExtensions == {"png", "jpg"}
\* The identifiers the keys are compared on: the rows, and two of two digits.
KeyIds == Ids \cup {10, 11}

\* The URL serves images of one format only: its content does not change
\* from one format to another.
FixedFormat(url) ==
  Cardinality({PILFormat(r.content) :
                 r \in {q \in Remote(url) : IsImage(q.content)}}) <= 1

C13_KeyInjectiveInIdentifier ==
  /\ [](main_pc = "idle" =>
          \A i, j \in KeyIds : \A u, v \in KeyUrls : \A e, f \in KeyExtensions :
            KeyString(DestKey(i, u, e)) = KeyString(DestKey(j, v, f)) => i = j)
  /\ [](\A i, j \in Ids :
          (i # j /\ dest_key[i] # << >> /\ dest_key[j] # << >>) =>
            KeyString(dest_key[i]) # KeyString(dest_key[j]))
  /\ [][\A i \in Ids : (pc[i] = "Uploading" /\ pc'[i] = "Returned") =>
          /\ dest_key[i] = DestKey(i, Url(i), extension[i])
          /\ DOMAIN store' = DOMAIN store \cup {dest_key[i]}
          /\ \A k \in DOMAIN store \ {dest_key[i]} : store'[k] = store[k]]_vars
  /\ [](\A i \in Rows : FixedFormat(Url(i)) => Cardinality(KeysOf(i)) <= 1)

\* After a stop of the process that left row i uploaded and not recorded,
\* the next run has put row i again: its URL serves one format, the bucket
\* holds one object of it, and it holds an object of another row.
C13_Witness ==
  \E i \in crash_left : \E j \in Rows \ {i} :
    /\ FixedFormat(Url(i))
    /\ pc[i] \in {"Returned", "Recorded"}
    /\ n_put[i] = 1
    /\ Cardinality(KeysOf(i)) = 1
    /\ Uploaded(j)

(***************************************************************************)
(* C14. Each task moves through the stages in the order Dispatched,        *)
(* Fetching, Classifying, KeyDeriving, Uploading, then Recorded or Failed. *)
(* A failure in a stage takes the task straight to Failed (its future      *)
(* holds the exception, "Raised", until main consumes it) and no later     *)
(* stage is executed for it: nothing is classified after a failed fetch,   *)
(* no key is derived and nothing is put after a failed classification, and *)
(* no Ledger line is appended after a failed put.                          *)
(***************************************************************************)
\* The steps a task may take; "Returned" and "Raised" are the done future
\* that main has not consumed yet.
StageEdges ==
  { <<"NotDispatched", "Dispatched">>, <<"Dispatched", "Fetching">>,
    <<"Fetching", "Classifying">>, <<"Fetching", "Raised">>,
    <<"Classifying", "KeyDeriving">>, <<"Classifying", "Raised">>,
    <<"KeyDeriving", "Uploading">>,
    <<"Uploading", "Returned">>, <<"Uploading", "Raised">>,
    <<"Returned", "Recorded">>, <<"Returned", "Failed">>,
    <<"Raised", "Failed">> }

C14_StagesInOrder ==
  /\ [][\A i \in Ids : pc'[i] # pc[i] =>
          \/ <<pc[i], pc'[i]>> \in StageEdges
          \/ (pc'[i] = "NotDispatched" /\ Stopped)]_vars
  /\ [][\A i \in Ids :
          (n_error'[i] > n_error[i] \/ (outcome'[i].tag = "Failure"
                                          /\ outcome[i].tag # "Failure")) =>
            (pc[i] \in {"Fetching", "Classifying", "Uploading"}
               /\ pc'[i] = "Raised")]_vars
  /\ [](\A i \in Ids :
          /\ pc[i] \in {"Classifying", "KeyDeriving", "Uploading", "Returned",
                       "Recorded"} =>
                (n_error[i] = 0 /\ response[i] # NoResponse)
          /\ outcome[i] = Failure("RequestException") =>
                /\ response[i] = NoResponse
                /\ extension[i] = ""
                /\ dest_key[i] = << >>
                /\ n_put[i] = 0
                /\ n_append[i] = 0
          /\ outcome[i] = Failure("ValueError") =>
                /\ n_fetch[i] = 1
                /\ extension[i] = ""
                /\ dest_key[i] = << >>
                /\ n_put[i] = 0
                /\ n_append[i] = 0
          /\ outcome[i] \in {Failure("ClientError"), Failure("Exception")} =>
                /\ n_fetch[i] = 1
                /\ dest_key[i] # << >>
                /\ n_put[i] = 1
                /\ n_append[i] = 0
          /\ outcome[i].tag = "Failure" => pc[i] \in {"Raised", "Failed"}
          /\ pc[i] = "Recorded" =>
                (n_fetch[i] = 1 /\ extension[i] # "" /\ dest_key[i] # << >>
                   /\ n_put[i] = 1 /\ n_append[i] = 1))

\* A finished run in which a task failed in each of the three stages.
C14_Witness ==
  /\ main_pc = "finished"
  /\ \E i, j, k \in Ids :
       /\ outcome[i] = Failure("RequestException") /\ pc[i] = "Failed"
       /\ outcome[j] = Failure("ValueError") /\ pc[j] = "Failed"
       /\ outcome[k] = Failure("ClientError") /\ pc[k] = "Failed"

(***************************************************************************)
(* C15. Ledger appends are serialized: the progress file has one writer,   *)
(* the main thread in its loop over the completed futures.  Every step     *)
(* that changes the Ledger appends one whole line, the index of one call   *)
(* that had returned, and is a step of main; a step of a worker thread     *)
(* never writes the Ledger, however many workers run and however their     *)
(* completions interleave.  So no two appends are in progress at once.     *)
(***************************************************************************)
C15_AppendsSerialized ==
  /\ [][ledger' # ledger =>
          \E i \in Ids :
            /\ ledger' = Append(ledger, i)
            /\ n_append' = [n_append EXCEPT ![i] = @ + 1]
            /\ main_pc = "consuming" /\ main_pc' = "consuming"
            /\ pc[i] = "Returned" /\ pc'[i] = "Recorded"
            /\ \A j \in Ids \ {i} : pc'[j] = pc[j]]_vars
  /\ [][(\E i \in Ids : pc[i] \in InWorker \cup {"Dispatched"} /\ pc'[i] # pc[i]) =>
          ledger' = ledger]_vars
  /\ [](\A k \in 1..Len(ledger) : ledger[k] \in Rows)

\* Two calls have returned and wait for main, which has appended the line
\* of neither yet, while a third call is in a worker.
C15_Witness ==
  /\ \E i, j \in Ids : /\ i # j
                       /\ pc[i] = "Returned" /\ pc[j] = "Returned"
                       /\ n_append[i] = 0 /\ n_append[j] = 0
  /\ Running # {}

(***************************************************************************)
(* C16. At every moment of a run the number of tasks that execute the      *)
(* pipeline (in Fetching, Classifying, KeyDeriving or Uploading) is at     *)
(* most the pool size MAX_WORKERS, for any number of eligible tasks; the   *)
(* tasks beyond it wait in the executor's queue.                           *)
(***************************************************************************)
C16_AtMostPoolSizeRunning ==
  /\ Cardinality({i \in Ids : pc[i] \in InWorker}) <= MAX_WORKERS
  /\ \A i \in Ids : pc[i] = "Dispatched" <=> i \in Range(work_queue)

\* More tasks than threads: every thread runs a call and a call waits in
\* the queue.
C16_Witness ==
  /\ Cardinality({i \in Ids : pc[i] \in InWorker}) = MAX_WORKERS
  /\ work_queue # << >>
  /\ Cardinality(EligibleAtStart) > MAX_WORKERS

(***************************************************************************)
(* C17. The end of a run is a function of the results of the stages of its *)
(* tasks, not of the order in which the workers ran and completed: when    *)
(* the run is finished the Ledger holds the identifiers it held at the     *)
(* start and those of the recorded tasks, the error log of the run holds   *)
(* one line per failed call, with its URL and its error, and the bucket    *)
(* holds, for every call that put, the object made of that call's own      *)
(* response; every change of the bucket is the put of one task at its own  *)
(* key.  Only the order of the lines depends on the interleaving.          *)
(***************************************************************************)
\* The calls of the run that raised, and the lines their results give.
FailedCalls == {i \in Ids : outcome[i].tag = "Failure"}
FailureLines == {[url |-> Url(i), error |-> outcome[i].error] : i \in FailedCalls}

\* The object call i puts, by its own results.
ObjectOf(i) ==
  [Body |-> response[i].content,
   ContentType |-> ContentType(response[i], extension[i])]

C17_EndIndependentOfInterleaving ==
  /\ [](main_pc = "finished" =>
          /\ Range(ledger) = StartLedger \cup {i \in Ids : pc[i] = "Recorded"}
          /\ \A i \in Ids : pc[i] = "Recorded" => outcome[i] = Success
          /\ BagToSet(error_log) = FailureLines
          /\ \A line \in FailureLines :
                CopiesIn(line, error_log) =
                  Cardinality({i \in FailedCalls :
                                 Url(i) = line.url /\ outcome[i].error = line.error})
          /\ \A i \in Ids : outcome[i] = Success =>
                /\ dest_key[i] \in DOMAIN store
                /\ store[dest_key[i]] = ObjectOf(i))
  /\ [][store' # store =>
          \E i \in Ids :
            /\ pc[i] = "Uploading"
            /\ store' = PutObject(store, DestKey(i, Url(i), extension[i]),
                                  ObjectOf(i))]_vars

\* A finished run whose calls completed in another order than they were
\* submitted in (the Ledger lines of the run are not in the order of the
\* rows), and in which a call failed.
C17_Witness ==
  /\ main_pc = "finished"
  /\ FailedCalls # {}
  /\ \E k \in 1..(Len(ledger) - 1) :
       /\ ledger[k] > ledger[k + 1]
       /\ n_append[ledger[k]] = 1
       /\ n_append[ledger[k + 1]] = 1

(***************************************************************************)
(* C18. The tasks of a run are exactly the rows of the CSV file whose      *)
(* index is not in the Ledger and whose URL cell is not empty (NaN), in    *)
(* the order of the file, and they are submitted to the pool in that       *)
(* order, which the executor's queue keeps.                                *)
(***************************************************************************)
\* The sequence is in the order of the rows, without repetition.
Increasing(s) == \A k \in 1..(Len(s) - 1) : s[k] < s[k + 1]

C18_TaskSourceFilterAndOrder ==
  /\ [](main_pc \in {"submitting", "consuming", "finished"} =>
          /\ Range(tasks_to_process) = EligibleAtStart
          /\ Increasing(tasks_to_process))
  /\ [](Increasing(work_queue))
  /\ [][\A i \in Ids : n_submit'[i] > n_submit[i] =>
          /\ i = tasks_to_process[next_submit]
          /\ \A k \in 1..Len(tasks_to_process) :
                n_submit[tasks_to_process[k]] = (IF k < next_submit THEN 1 ELSE 0)
          /\ work_queue' = Append(work_queue, i)]_vars

\* A run on a ledger that holds a row: its tasks are two rows or more, with
\* a row without URL between them that is left out, and all are submitted.
C18_Witness ==
  /\ main_pc = "consuming"
  /\ StartLedger # {}
  /\ Len(tasks_to_process) >= 2
  /\ \E i \in Rows : /\ Url(i).isna
                     /\ tasks_to_process[1] < i
                     /\ i < tasks_to_process[Len(tasks_to_process)]
                     /\ n_submit[i] = 0

(***************************************************************************)
(* C19. For every successful upload the content-type stored with the       *)
(* object is the type sniffed from the payload bytes whenever there is     *)
(* one; the type the server declared is a fallback only.  Every object in  *)
(* the bucket was classified, so it has a sniffed type.  (Fails: the code  *)
(* stores the declared Content-Type header whenever the response has one,  *)
(* and falls back to "image/" and the extension when it has none.)         *)
(***************************************************************************)
\* The content type of the format Pillow reads from the bytes.
SniffedType(content) == "image/" \o Lower(PILFormat(content))

C19_StoredTypeIsSniffedType ==
  \A k \in DOMAIN store :
    IsImage(store[k].Body) => store[k].ContentType = SniffedType(store[k].Body)

\* What the code does instead: an object stored for a response that declared
\* a type has that type, and one for a response without the header has
\* "image/" and the extension of the sniffed format.
StoredTypeIsDeclaredElseExtension ==
  [][\A i \in Ids : (pc[i] = "Uploading" /\ pc'[i] = "Returned") =>
       store'[dest_key[i]].ContentType =
         (IF response[i].content_type # "" THEN response[i].content_type
          ELSE "image/" \o extension[i])]_vars

(***************************************************************************)
(* C20. When the Ledger append raises for a task whose upload succeeded,   *)
(* the run does not abort: main stays in its loop, no other task is        *)
(* touched, and the run finishes only when every outcome is consumed; the  *)
(* identifier is not in the Ledger, no line is written to the error log    *)
(* for it, its object is in the bucket, and the next run that gets past    *)
(* its startup dispatches the task again (and puts its object again        *)
(* when its stages succeed again).                                         *)
(***************************************************************************)
\* The calls that returned and whose Ledger append raised.
AppendFailed == {i \in Ids : outcome[i] = Success /\ pc[i] = "Failed"}

C20_AppendFailureLeavesTaskForNextRun ==
  /\ [][\A i \in Ids : (pc[i] = "Returned" /\ pc'[i] = "Failed") =>
          /\ main_pc = "consuming" /\ main_pc' = "consuming"
          /\ UNCHANGED <<ledger, error_log, store, work_queue, tasks_to_process>>
          /\ \A j \in Ids \ {i} : pc'[j] = pc[j]]_vars
  /\ [](\A i \in AppendFailed :
          /\ n_append[i] = 0
          /\ i \notin Range(ledger)
          /\ n_error[i] = 0
          /\ (\A j \in FailedCalls : Url(j) # Url(i)) =>
                \A line \in BagToSet(error_log) : line.url # Url(i)
          /\ n_put[i] = 1
          /\ Uploaded(i))
  /\ [](main_pc = "finished" =>
          \A i \in Ids : n_submit[i] = 1 => pc[i] \in Terminal)
  /\ [][main_pc = "finished" =>
          \A i \in AppendFailed :
            main_pc' = "aborted" \/ i \in Range(tasks_to_process')]_vars

\* A row whose object is in the bucket and whose index is not in the Ledger
\* (the append of an earlier run raised) is in a worker again, about to be
\* put again, in a run in which another row is recorded.
C20_Witness ==
  \E i \in Ids :
    /\ pc[i] = "Uploading"
    /\ n_put[i] = 0
    /\ Uploaded(i)
    /\ i \notin Range(ledger)
    /\ dest_key[i] \in DOMAIN store
    /\ \E j \in Ids \ {i} : pc[j] = "Recorded" /\ n_append[j] = 1

====
